---- MODULE Spec2Model ----
(***************************************************************************)
(* photo-sync (src/sync.py): the fingerprint index with its mtime-keyed    *)
(* cache (build_hash_map) and the reconciliation loop of main.             *)
(*                                                                         *)
(* A path is a sequence of components; a file name is its last two         *)
(* components, stem and extension.  The file system is a function from a   *)
(* fixed universe of paths to file records.  One run of main is a chain of *)
(* steps: load the cache, walk /sorted (one iteration = stat step + hash   *)
(* step), persist the cache (open-for-write, then dump), list /duplicates, *)
(* process each source file, print the summary.                            *)
(***************************************************************************)
EXTENDS Integers, Sequences, FiniteSets, TLC

\* ------------------------------------------------------------------ bounds
\* number of times another program rewrites a file of /sorted, over all runs
MaxEdits == 1
\* number of runs of main
MaxRuns == 2
\* number of injected I/O failures (hash_file, shutil.move) over all runs
MaxFaults == 1

\* ------------------------------------------------------------- constants
SORTED_DIR == <<"sorted">>
DUPLICATES_DIR == <<"duplicates">>
EXTENSIONS == {".jpg", ".jpeg", ".png", ".heic", ".mp4", ".mov"}

\* Python's None (hash_file's failure value; JSON null once loaded)
None == "None"

\* file contents; "c2" carries an EXIF DateTimeOriginal tag, "c1" does not
Contents == {"c1", "c2"}

\* the paths of the /sorted tree, in the order os.walk lists them
SortedWalk ==
  << SORTED_DIR \o <<"n", ".txt">>,
     SORTED_DIR \o <<"b", ".JPG">>,
     SORTED_DIR \o <<"2020", "01", "02", "a", ".jpg">>,
     SORTED_DIR \o <<"unknown", "a", ".jpg">> >>

\* the paths of the /duplicates tree, in the order os.walk lists them
DupWalk ==
  << DUPLICATES_DIR \o <<"a", ".jpg">>,
     DUPLICATES_DIR \o <<"x", "a", ".jpg">> >>

Range(s) == {s[k] : k \in 1..Len(s)}
SortedPaths == Range(SortedWalk)
DupPaths == Range(DupWalk)
AllPaths == SortedPaths \cup DupPaths

\* the text file of /sorted: always there, never a media file
NotesPath == SORTED_DIR \o <<"n", ".txt">>

Absent == [present |-> FALSE, content |-> "", mtime |-> 0]
File(c, m) == [present |-> TRUE, content |-> c, mtime |-> m]

\* --------------------------------------------------------- pure functions
\* str.lower() on an extension
Lower(ext) ==
  CASE ext = ".JPG" -> ".jpg"
    [] ext = ".JPEG" -> ".jpeg"
    [] ext = ".PNG" -> ".png"
    [] OTHER -> ext

\* f.lower().endswith((".jpg", ...))
Eligible(path) == Lower(path[Len(path)]) \in EXTENSIONS

\* hashlib.md5 over the bytes of the file
Digest(c) ==
  CASE c = "c1" -> "0cc175b9"
    [] c = "c2" -> "92eb5ffe"
    [] OTHER -> "d41d8cd9"

\* f"{mtime}" of the float os.path.getmtime returns
DigitStr == <<"0", "1", "2", "3", "4", "5", "6", "7", "8", "9">>
FmtMtime(m) == <<DigitStr[m + 1], ".0">>

\* key = f"{full_path}:{mtime}"
MakeKey(path, m) == path \o <<":">> \o FmtMtime(m)

\* os.path.relpath(full_path, base_path)
RelPath(path, base) == SubSeq(path, Len(base) + 1, Len(path))

\* os.path.basename(f)
BaseName(path) == SubSeq(path, Len(path) - 1, Len(path))

IsUnder(path, base) ==
  /\ Len(path) > Len(base)
  /\ SubSeq(path, 1, Len(base)) = base

\* the EXIF DateTimeOriginal tag of a file's bytes: Y, m, d, H, M, S
ExifTag(c) == IF c = "c2" THEN <<"2020", "01", "02", "10", "30", "00">> ELSE << >>

\* get_date_taken: strptime("%Y:%m:%d %H:%M:%S").strftime("%Y/%m/%d"), or
\* "unknown" when the tag is missing (str(None) does not parse)
GetDateTaken(c) ==
  IF Len(ExifTag(c)) = 6 THEN SubSeq(ExifTag(c), 1, 3) ELSE <<"unknown">>

\* ------------------------------------------------------------ cache values
EmptyMap == [k \in {} |-> None]
DictOf(m) == [kind |-> "dict", map |-> m, elems |-> {}]
ListOf(e) == [kind |-> "list", map |-> EmptyMap, elems |-> e]
Scalar == [kind |-> "scalar", map |-> EmptyMap, elems |-> {}]
NoFile == [kind |-> "absent", map |-> EmptyMap, elems |-> {}]
Garbage == [kind |-> "garbage", map |-> EmptyMap, elems |-> {}]

\* json.dump / json.load of one value of the mapping
JsonEnc(v) == IF v = None THEN <<"null">> ELSE <<"string", v>>
JsonDec(j) == IF j = <<"null">> THEN None ELSE j[2]

\* json.dump(cache, f): the text of the whole cache
JsonDump(c) ==
  [kind |-> c.kind, map |-> [k \in DOMAIN c.map |-> JsonEnc(c.map[k])], elems |-> c.elems]

\* cache = {}; if exists: try json.load except: cache = {}
LoadCache(file) ==
  IF file.kind \in {"absent", "garbage"}
  THEN DictOf(EmptyMap)
  ELSE [kind |-> file.kind,
        map |-> [k \in DOMAIN file.map |-> JsonDec(file.map[k])],
        elems |-> file.elems]

\* d[k] = v on a dict
PutAlone(m, k, v) == [x \in {k} |-> v]
Put(m, k, v) == [x \in DOMAIN m \cup {k} |-> IF x = k THEN v ELSE m[x]]

\* ------------------------------------------------------------------ state
VARIABLES
  fs,           \* the file system: path -> file record
  symlinks,     \* the paths that are symbolic links (to a file outside the trees)
  cacheFile,    \* the content of CACHE_FILE on storage
  pc,           \* where the process is
  run,          \* runs of main started
  faults,       \* I/O failures injected so far
  edits,        \* rewrites by other programs so far
  cache,        \* build_hash_map: the cache in memory
  files,        \* build_hash_map: the list os.walk produced
  i,            \* build_hash_map: index of the current file (1-based)
  mtime,        \* build_hash_map: mtime read for the current file
  file_map,     \* build_hash_map: the index being built
  sorted_map,   \* main: the index build_hash_map returned
  dup_files,    \* main: the source files listed
  j,            \* main: index of the current source file (1-based)
  moved_count,  \* main: counter
  skipped,      \* main: counter
  errors,       \* main: counter
  log,          \* the lines logged by the current run: <<level, path>>
  summary,      \* the final summary line of the current run
  loaded,       \* history: the cache as loaded at the start of the run
  fileAtStart,  \* history: the cache file's content at the start of the run
  trace,        \* history: what each iteration of build_hash_map did
  outcome,      \* history: what main did with each source file
  fs0,          \* history: the file system when /duplicates was listed
  walkDirty,    \* history: /sorted was modified during the walk
  sortedDirty,  \* history: /sorted was modified since the run started
  prev          \* history: the index the previous run's build_hash_map returned

vars ==
  << fs, symlinks, cacheFile, pc, run, faults, edits, cache, files, i, mtime, file_map,
     sorted_map, dup_files, j, moved_count, skipped, errors, log, summary,
     loaded, fileAtStart, trace, outcome, fs0, walkDirty, sortedDirty, prev >>

bhmVars == << cache, files, i, mtime, file_map >>
mainVars == << sorted_map, dup_files, j, moved_count, skipped, errors, summary, outcome, fs0 >>
histVars == << loaded, fileAtStart, prev >>

NoSummary == [printed |-> FALSE, moved |-> 0, skipped |-> 0, errors |-> 0]
NoPrev == [valid |-> FALSE, index |-> EmptyMap]

\* [os.path.join(root, f) for root, _, fs in os.walk(base) for f in fs if eligible]
Walk(order, base) ==
  SelectSeq(order, LAMBDA p : IsUnder(p, base) /\ fs[p].present /\ Eligible(p))

\* lines 131-134: the place a file of content c and the name of path f goes
DestOf(f, c) == SORTED_DIR \o GetDateTaken(c) \o BaseName(f)

\* hash_file on a readable file
HashFile(path) == Digest(fs[path].content)

\* the cache files an earlier, possibly foreign, writer may have left
InitialCacheFiles ==
  { NoFile, Garbage, Scalar, ListOf({MakeKey(SortedWalk[2], 1)}) }

\* the trees before the first run: files of /sorted were written before those
\* of /duplicates; sorted/b.JPG, when present, is a symbolic link to a media
\* file outside both trees, which lines 71-76, 81 and 36-41 follow
Init ==
  /\ fs \in [AllPaths -> {Absent} \cup {File(c, m) : c \in Contents, m \in 1..2}]
  /\ fs[NotesPath] = File("c1", 1)
  /\ \A p \in SortedPaths : fs[p].present => fs[p].mtime = 1
  /\ \A p \in DupPaths : fs[p].present => fs[p].mtime = 2
  /\ fs[SortedWalk[3]].present => DestOf(SortedWalk[3], fs[SortedWalk[3]].content) = SortedWalk[3]
  /\ symlinks = {p \in {SortedWalk[2]} : fs[p].present}
  /\ cacheFile \in InitialCacheFiles
  /\ pc = "idle"
  /\ run = 0
  /\ faults = 0
  /\ edits = 0
  /\ cache = DictOf(EmptyMap)
  /\ files = << >>
  /\ i = 1
  /\ mtime = 0
  /\ file_map = EmptyMap
  /\ sorted_map = EmptyMap
  /\ dup_files = << >>
  /\ j = 1
  /\ moved_count = 0
  /\ skipped = 0
  /\ errors = 0
  /\ log = {}
  /\ summary = NoSummary
  /\ loaded = DictOf(EmptyMap)
  /\ fileAtStart = cacheFile
  /\ trace = {}
  /\ outcome = {}
  /\ fs0 = fs
  /\ walkDirty = FALSE
  /\ sortedDirty = FALSE
  /\ prev = NoPrev

\* one iteration of build_hash_map's loop, as the history records it
Iter(path, key, called, h, raised) ==
  [path |-> path, key |-> key, called |-> called, h |-> h, raised |-> raised]

\* the paths hash_file was invoked on by build_hash_map in this run
HashCalls == {t.path : t \in {u \in trace : u.called}}

\* ---------------------------------------------------------------- actions
\* main, lines 105-106, and build_hash_map, lines 61-78: load the cache and
\* list the media files of /sorted
StartMain ==
  /\ pc \in {"idle", "done", "crashed"}
  /\ run < MaxRuns
  /\ run' = run + 1
  /\ cache' = LoadCache(cacheFile)
  /\ log' = IF cacheFile.kind = "garbage" THEN {<<"WARNING", <<"hash_cache.json">>>>} ELSE {}
  /\ files' = Walk(SortedWalk, SORTED_DIR)
  /\ i' = 1
  /\ mtime' = 0
  /\ file_map' = EmptyMap
  /\ sorted_map' = EmptyMap
  /\ dup_files' = << >>
  /\ j' = 1
  /\ moved_count' = 0
  /\ skipped' = 0
  /\ errors' = 0
  /\ summary' = NoSummary
  /\ loaded' = LoadCache(cacheFile)
  /\ fileAtStart' = cacheFile
  /\ trace' = {}
  /\ outcome' = {}
  /\ fs0' = fs
  /\ walkDirty' = FALSE
  /\ sortedDirty' = FALSE
  /\ prev' = [valid |-> pc = "done" /\ ~sortedDirty, index |-> sorted_map]
  /\ pc' = "stat"
  /\ UNCHANGED << fs, cacheFile, faults >>
  /\ UNCHANGED << edits, symlinks >>

\* lines 88-89: if h: file_map[h] = relpath
IndexInsert(m, h, path) ==
  IF h = None THEN m ELSE Put(m, h, RelPath(path, SORTED_DIR))

\* lines 90-91: except Exception: continue
Abort(k) == Len(files) + 1
Continue(k) == k + 1

\* lines 81-84 and 88-91: getmtime, the key, the lookup; a hit ends the
\* iteration, an exception (the file is gone, or the loaded value is not a
\* mapping) ends it with nothing recorded
BhmStat ==
  /\ pc = "stat"
  /\ i <= Len(files)
  /\ LET p == files[i]
         key == MakeKey(p, fs[p].mtime)
     IN  IF ~fs[p].present \/ cache.kind = "scalar"
           \/ (cache.kind = "list" /\ key \in cache.elems)
         THEN /\ trace' = trace \cup
                   {Iter(p, IF fs[p].present THEN key ELSE << >>, FALSE, None, TRUE)}
              /\ i' = Continue(i)
              /\ UNCHANGED << pc, mtime, file_map >>
         ELSE IF cache.kind = "dict" /\ key \in DOMAIN cache.map
         THEN /\ trace' = trace \cup {Iter(p, key, FALSE, cache.map[key], FALSE)}
              /\ file_map' = IndexInsert(file_map, cache.map[key], p)
              /\ i' = i + 1
              /\ UNCHANGED << pc, mtime >>
         ELSE /\ mtime' = fs[p].mtime
              /\ pc' = "hash"
              /\ UNCHANGED << i, file_map, trace >>
  /\ UNCHANGED << fs, cacheFile, run, faults, cache, files, log, walkDirty, sortedDirty >>
  /\ UNCHANGED << mainVars, histVars >>
  /\ UNCHANGED << edits, symlinks >>

\* lines 85-91 with the digest h: cache[key] = h, then the index; on a
\* loaded list the assignment raises and the iteration ends
BhmRecord(h) ==
  LET p == files[i]
      key == MakeKey(p, mtime)
  IN  /\ IF cache.kind = "dict"
         THEN /\ cache' = DictOf(Put(cache.map, key, h))
              /\ file_map' = IndexInsert(file_map, h, p)
              /\ trace' = trace \cup {Iter(p, key, TRUE, h, FALSE)}
         ELSE /\ trace' = trace \cup {Iter(p, key, TRUE, h, TRUE)}
              /\ UNCHANGED << cache, file_map >>
      /\ i' = IF cache.kind = "dict" THEN i + 1 ELSE Continue(i)
      /\ pc' = "stat"
      /\ UNCHANGED << fs, cacheFile, run, files, mtime, log, walkDirty, sortedDirty >>
      /\ UNCHANGED << mainVars, histVars >>
      /\ UNCHANGED << edits, symlinks >>

\* line 86, hash_file returns the digest
BhmHashOk ==
  /\ pc = "hash"
  /\ fs[files[i]].present
  /\ BhmRecord(HashFile(files[i]))
  /\ UNCHANGED faults

\* line 86, hash_file returns None (lines 42-43)
BhmHashFails ==
  /\ pc = "hash"
  /\ faults < MaxFaults
  /\ faults' = faults + 1
  /\ BhmRecord(None)

\* line 99: open(CACHE_FILE, "w") truncates the file
BhmPersistOpen ==
  /\ pc = "stat"
  /\ i > Len(files)
  /\ cacheFile' = Garbage
  /\ pc' = "dump"
  /\ UNCHANGED << fs, run, faults, log, trace, walkDirty, sortedDirty >>
  /\ UNCHANGED << bhmVars, mainVars, histVars >>
  /\ UNCHANGED << edits, symlinks >>

\* line 99: open(CACHE_FILE, "w") raises; nothing in main catches it
BhmPersistOpenFails ==
  /\ pc = "stat"
  /\ i > Len(files)
  /\ faults < MaxFaults
  /\ faults' = faults + 1
  /\ pc' = "crashed"
  /\ UNCHANGED << fs, cacheFile, run, log, trace, walkDirty, sortedDirty >>
  /\ UNCHANGED << bhmVars, mainVars, histVars >>
  /\ UNCHANGED << edits, symlinks >>

\* lines 100-101 and 107-119: json.dump writes the cache, build_hash_map
\* returns the index, main lists /duplicates
BhmDump ==
  /\ pc = "dump"
  /\ cacheFile' = JsonDump(cache)
  /\ sorted_map' = file_map
  /\ dup_files' = Walk(DupWalk, DUPLICATES_DIR)
  /\ fs0' = fs
  /\ j' = 1
  /\ pc' = "process"
  /\ UNCHANGED << fs, run, faults, log, trace, walkDirty, sortedDirty >>
  /\ UNCHANGED << bhmVars, histVars >>
  /\ UNCHANGED << moved_count, skipped, errors, summary, outcome >>
  /\ UNCHANGED << edits, symlinks >>

\* line 100: the write fails, or the process is killed, before the text is
\* complete: the file keeps what was written so far
BhmDumpFails ==
  /\ pc = "dump"
  /\ faults < MaxFaults
  /\ faults' = faults + 1
  /\ pc' = "crashed"
  /\ UNCHANGED << fs, cacheFile, run, log, trace, walkDirty, sortedDirty >>
  /\ UNCHANGED << bhmVars, mainVars, histVars >>
  /\ UNCHANGED << edits, symlinks >>

\* line 126: h in sorted_map
InIndexNever(h, m) == FALSE
InIndex(h, m) == h \in DOMAIN m

\* lines 131-134: the place a new file is moved to
DestPath(f) == DestOf(f, fs[f].content)

Did(path, h, act) == [path |-> path, h |-> h, act |-> act]

MainStep(f, h, act) ==
  /\ j' = j + 1
  /\ outcome' = outcome \cup {Did(f, h, act)}
  /\ UNCHANGED << cacheFile, run, pc, trace, walkDirty, sorted_map, dup_files, summary, fs0 >>
  /\ UNCHANGED << bhmVars, histVars >>
  /\ UNCHANGED << edits, symlinks >>

\* lines 123-125: hash_file returns None, the loop continues
MainHashFails ==
  /\ pc = "process"
  /\ j <= Len(dup_files)
  /\ faults < MaxFaults
  /\ faults' = faults + 1
  /\ MainStep(dup_files[j], None, "nohash")
  /\ UNCHANGED << fs, log, moved_count, skipped, errors, sortedDirty >>

\* lines 123-129: the fingerprint is in the index of /sorted
MainSkip ==
  /\ pc = "process"
  /\ j <= Len(dup_files)
  /\ LET f == dup_files[j]
         h == HashFile(f)
     IN  /\ InIndex(h, sorted_map)
         /\ log' = log \cup {<<"SKIPPED", f>>}
         /\ skipped' = skipped + 1
         /\ MainStep(f, h, "skipped")
  /\ UNCHANGED << fs, faults, moved_count, errors, sortedDirty >>

\* lines 123-138: the fingerprint is new, the file is moved (an existing
\* file at the destination path is replaced; the mtime travels with the file)
MainMove ==
  /\ pc = "process"
  /\ j <= Len(dup_files)
  /\ LET f == dup_files[j]
         h == HashFile(f)
     IN  /\ ~InIndex(h, sorted_map)
         /\ fs' = [fs EXCEPT ![DestPath(f)] = fs[f], ![f] = Absent]
         /\ log' = log \cup {<<"MOVED", f>>}
         /\ moved_count' = moved_count + 1
         /\ MainStep(f, h, "moved")
  /\ sortedDirty' = TRUE
  /\ UNCHANGED << faults, skipped, errors >>

\* lines 131-142: os.makedirs or shutil.move raises
MainMoveFails ==
  /\ pc = "process"
  /\ j <= Len(dup_files)
  /\ faults < MaxFaults
  /\ faults' = faults + 1
  /\ LET f == dup_files[j]
         h == HashFile(f)
     IN  /\ ~InIndex(h, sorted_map)
         /\ log' = log \cup {<<"ERROR", f>>}
         /\ errors' = errors + 1
         /\ MainStep(f, h, "error")
  /\ UNCHANGED << fs, moved_count, skipped, sortedDirty >>

\* lines 150-152: the final summary
MainFinish ==
  /\ pc = "process"
  /\ j > Len(dup_files)
  /\ summary' = [printed |-> TRUE, moved |-> moved_count, skipped |-> skipped,
                 errors |-> errors]
  /\ pc' = "done"
  /\ UNCHANGED << fs, cacheFile, run, faults, log, trace, walkDirty, sortedDirty >>
  /\ UNCHANGED << bhmVars, histVars >>
  /\ UNCHANGED << sorted_map, dup_files, j, moved_count, skipped, errors, outcome, fs0 >>
  /\ UNCHANGED << edits, symlinks >>

\* between two runs another program rewrites a media file of /sorted: new
\* bytes, later mtime
Modify(p, c) ==
  /\ pc \in {"done", "crashed"}
  /\ p # NotesPath
  /\ fs[p].present
  /\ edits < MaxEdits
  /\ edits' = edits + 1
  /\ c # fs[p].content
  /\ fs' = [fs EXCEPT ![p] = File(c, fs[p].mtime + 1)]
  /\ sortedDirty' = TRUE
  /\ UNCHANGED << symlinks, cacheFile, pc, run, faults, log, trace, walkDirty >>
  /\ UNCHANGED << bhmVars, mainVars, histVars >>

\* during the walk another program rewrites the file whose mtime line 81 has
\* read and whose bytes line 86 has not read yet
ModifyBeforeHash(c) ==
  /\ pc = "hash"
  /\ fs[files[i]].present
  /\ edits < MaxEdits
  /\ edits' = edits + 1
  /\ c # fs[files[i]].content
  /\ fs' = [fs EXCEPT ![files[i]] = File(c, fs[files[i]].mtime + 1)]
  /\ walkDirty' = TRUE
  /\ sortedDirty' = TRUE
  /\ UNCHANGED << symlinks, cacheFile, pc, run, faults, log, trace >>
  /\ UNCHANGED << bhmVars, mainVars, histVars >>

Next ==
  \/ StartMain
  \/ BhmStat
  \/ BhmHashOk
  \/ BhmHashFails
  \/ BhmPersistOpen
  \/ BhmPersistOpenFails
  \/ BhmDump
  \/ BhmDumpFails
  \/ MainHashFails
  \/ MainSkip
  \/ MainMove
  \/ MainMoveFails
  \/ MainFinish
  \/ \E p \in SortedPaths, c \in Contents : Modify(p, c)
  \/ \E c \in Contents : ModifyBeforeHash(c)

Spec == Init /\ [][Next]_vars

\* ------------------------------------------------------- claim vocabulary
\* build_hash_map has returned its index to main
Returned == pc \in {"process", "done"}

\* the keys a loaded cache value holds
StoredKeys(c) == DOMAIN c.map \cup c.elems

\* position of a path in the list of the walk
Pos(p) == CHOOSE k \in 1..Len(files) : files[k] = p

\* the fingerprints the iterations of this walk obtained, from the cache or
\* from hash_file
Obtained == {t.h : t \in {u \in trace : u.h # None}}

\* the index of a walk that hashes every file of the list afresh
RECURSIVE FreshIndex(_, _)
FreshIndex(disk, k) ==
  IF k = 0 THEN EmptyMap
  ELSE IndexInsert(FreshIndex(disk, k - 1), Digest(disk[files[k]].content), files[k])

\* no hash_file call of this walk failed
NoDigestFailure == \A t \in trace : t.called => t.h # None

\* C1: a file whose path:mtime is not a key of the loaded cache is hashed and
\* its fresh fingerprint goes into the index; a fingerprint obtained without
\* hashing comes from the entry stored under exactly the file's path:mtime
C1_CacheInvalidation ==
  \A t \in trace :
    /\ (t.key # << >> /\ t.key \notin StoredKeys(loaded))
         => /\ t.called
            /\ t.h # None => t.h \in DOMAIN file_map
    /\ (~t.called /\ t.h # None)
         => /\ t.key \in DOMAIN loaded.map
            /\ loaded.map[t.key] = t.h

\* C2: when /sorted did not change since the previous run began its walk, the
\* second build_hash_map returns the index the first returned and calls
\* hash_file on no file
C2_Idempotence ==
  (Returned /\ prev.valid /\ ~walkDirty)
    => /\ sorted_map = prev.index
       /\ HashCalls = {}

\* C3: of several files with one fingerprint, the index keeps the path of the
\* first in traversal order; a later one never replaces it
C3_FirstSeenWins ==
  Returned =>
    \A t1 \in trace, t2 \in trace :
      (/\ t1.h # None /\ t1.h = t2.h
       /\ ~t1.raised /\ ~t2.raised
       /\ Pos(t1.path) < Pos(t2.path))
        => sorted_map[t1.h] # RelPath(t2.path, SORTED_DIR)

\* a source file is no longer at its path in /duplicates
Moved(f) == ~fs[f].present
\* a source file is where and what it was when /duplicates was listed
InPlace(f) == fs[f] = fs0[f]

\* C4 as stated: a source file with a computed fingerprint is moved iff the
\* fingerprint is absent from the destination index, and left in place
\* otherwise
C4_MovedIffAbsent ==
  \A o \in outcome :
    o.h # None =>
      /\ Moved(o.path) <=> o.h \notin DOMAIN sorted_map
      /\ o.h \in DOMAIN sorted_map => InPlace(o.path)

\* C4 as amended: a source file with a computed fingerprint is moved iff the
\* fingerprint is absent from the destination index and the move itself does
\* not fail; a file whose fingerprint is present is left in place, and so is
\* one whose move failed, which is logged and counted as an error
C4_MovedIffAbsentAndMoveSucceeds ==
  \A o \in outcome :
    o.h # None =>
      /\ Moved(o.path) <=> (o.h \notin DOMAIN sorted_map /\ o.act # "error")
      /\ o.h \in DOMAIN sorted_map => (InPlace(o.path) /\ o.act = "skipped")
      /\ o.act = "error" =>
           /\ o.h \notin DOMAIN sorted_map
           /\ InPlace(o.path)
           /\ <<"ERROR", o.path>> \in log
           /\ errors > 0

\* a run that moved one source file and skipped another is over
C4_Witness ==
  /\ pc = "done"
  /\ \E o1 \in outcome, o2 \in outcome : o1.act = "moved" /\ o2.act = "skipped"

\* the key-to-fingerprint entries a cache file holds (none when the file is
\* missing or is not a mapping)
Entries(file) == IF file.kind = "dict" THEN file.map ELSE EmptyMap

\* C5: at every point of a run, also after a failed or interrupted write, the
\* cache file holds the complete previous cache or the complete new one
C5_PersistAtomic ==
  run > 0 =>
    \/ Entries(cacheFile) = Entries(fileAtStart)
    \/ cacheFile = JsonDump(cache)

\* C6: a file whose digest failed has no entry in the cache in memory, nor in
\* the persisted cache, nor in the index
C6_FailedDigestNoTrace ==
  \A t \in trace :
    (t.called /\ t.h = None) =>
      /\ t.key \notin DOMAIN cache.map
      /\ Returned => t.key \notin DOMAIN cacheFile.map

\* C7: a cache file that is not a valid mapping counts as an empty cache:
\* every listed file is hashed and the index is the one a run without a cache
\* file returns
C7_CorruptionResilience ==
  (/\ Returned
   /\ fileAtStart.kind \in {"garbage", "list", "scalar"}
   /\ ~walkDirty
   /\ NoDigestFailure)
    => /\ HashCalls = Range(files)
       /\ sorted_map = FreshIndex(fs0, Len(files))

\* C8: for a tree not modified during the walk the index has exactly the
\* fingerprints obtained, each with the relative path of a file of the tree
\* that has that fingerprint
C8_IndexContent ==
  (Returned /\ ~walkDirty) =>
    /\ DOMAIN sorted_map = Obtained
    /\ \A h \in DOMAIN sorted_map :
         \E p \in Range(files) :
           /\ RelPath(p, SORTED_DIR) = sorted_map[h]
           /\ fs0[p].present
           /\ Digest(fs0[p].content) = h

\* C9: at the end of a run, here one in which no move failed, moved + skipped
\* is the number of distinct fingerprints of the source tree, and every source
\* fingerprint present in the destination index is counted and logged as a
\* skip
C9_PlanAccounting ==
  (pc = "done" /\ summary.errors = 0) =>
    /\ summary.moved + summary.skipped
         = Cardinality({o.h : o \in {x \in outcome : x.h # None}})
    /\ \A o \in outcome :
         (o.h # None /\ o.h \in DOMAIN sorted_map)
           => (o.act = "skipped" /\ <<"SKIPPED", o.path>> \in log)

\* C10: a source file that cannot be read is logged as skipped, stays where
\* it is, and the summary of the completed run reports errors
C10_UnreadableSource ==
  pc = "done" =>
    \A o \in outcome :
      o.act = "nohash" =>
        /\ <<"SKIPPED", o.path>> \in log
        /\ InPlace(o.path)
        /\ summary.errors > 0

\* C11: no run ends with an unhandled fault: whatever fails, build_hash_map
\* returns and main goes on to its summary
C11_NoFatal == pc # "crashed"

\* C12: a symbolic link met during the walk is never hashed and adds no entry
\* to the index or to the cache
C12_SymlinksSkipped ==
  \A p \in symlinks :
    /\ p \notin HashCalls
    /\ \A h \in DOMAIN file_map : file_map[h] # RelPath(p, SORTED_DIR)
    /\ \A t \in trace :
         t.path = p => t.key \notin DOMAIN cache.map \ DOMAIN loaded.map

\* the iteration of the walk ended without a result for its file: an
\* exception sent it to the except of lines 90-91, or hash_file returned None
Failed(t) == t.raised \/ (t.called /\ t.h = None)

\* the loop of lines 79-91 is over
WalkOver == run > 0 /\ ~(pc \in {"stat", "hash"} /\ i <= Len(files))

\* what the history records for the file at path p
TraceOf(p) == CHOOSE t \in trace : t.path = p

\* the index the files of the list build without those whose iteration failed
RECURSIVE IsolatedIndex(_)
IsolatedIndex(k) ==
  IF k = 0 THEN EmptyMap
  ELSE IF Failed(TraceOf(files[k])) THEN IsolatedIndex(k - 1)
  ELSE IndexInsert(IsolatedIndex(k - 1), TraceOf(files[k]).h, files[k])

\* C13: a failure on one file of the walk leaves the others alone: once the
\* walk is over every listed file has had its one iteration, each file that
\* did not fail was looked up (and has the stored fingerprint) or hashed (and
\* has its own entry in the cache, with its own digest when the tree stood
\* still), and the index is the one the files that did not fail build alone
C13_FailureIsolation ==
  WalkOver =>
    /\ \A p \in Range(files) : Cardinality({t \in trace : t.path = p}) = 1
    /\ \A t \in trace :
         ~Failed(t) =>
           /\ ~t.called => (t.key \in DOMAIN loaded.map /\ t.h = loaded.map[t.key])
           /\ t.called => (t.key \in DOMAIN cache.map /\ cache.map[t.key] = t.h)
           /\ (t.called /\ ~walkDirty) =>
                /\ t.key = MakeKey(t.path, fs0[t.path].mtime)
                /\ t.h = Digest(fs0[t.path].content)
    /\ file_map = IsolatedIndex(Len(files))

\* the walk is over, one file failed, and a later file of the list was hashed
\* and is in the index
C13_Witness ==
  /\ WalkOver
  /\ \E t1 \in trace, t2 \in trace :
       /\ Failed(t1) /\ ~Failed(t2)
       /\ Pos(t1.path) < Pos(t2.path)
       /\ t2.called
       /\ t2.h \in DOMAIN file_map
       /\ file_map[t2.h] = RelPath(t2.path, SORTED_DIR)

\* the storage step of lines 99-100 is the next thing build_hash_map does, or
\* is under way
AtPersist == (pc = "stat" /\ i > Len(files)) \/ pc = "dump"

\* the keys hash_file results were recorded under in this run
Recorded == {t.key : t \in {u \in trace : u.called /\ ~u.raised}}

\* C14: within a run no step removes a key of the cache in memory; the cache
\* file changes only in the storage step that follows the walk, which happens
\* once and, when it completes, has written the whole cache; and when the
\* loaded cache was a mapping, the file written holds every loaded key with
\* its loaded value, unless the run recorded that key again
C14_CacheMonotone ==
  [][/\ run' = run =>
          /\ DOMAIN cache.map \subseteq DOMAIN cache'.map
          /\ cache.elems \subseteq cache'.elems
     /\ cacheFile' # cacheFile =>
          /\ AtPersist
          /\ pc' \in {"dump", "process"}
          /\ pc' # pc
     /\ (pc = "dump" /\ pc' = "process") =>
          /\ cacheFile' = JsonDump(cache)
          /\ loaded.kind = "dict" =>
               \A k \in DOMAIN loaded.map \ Recorded :
                 /\ k \in DOMAIN cacheFile'.map
                 /\ JsonDec(cacheFile'.map[k]) = loaded.map[k]
    ]_vars

\* build_hash_map has returned in a run that loaded a mapping with entries
\* and recorded a new one, and the file holds old and new
C14_Witness ==
  /\ Returned
  /\ loaded.kind = "dict"
  /\ DOMAIN loaded.map # {}
  /\ Recorded \ DOMAIN loaded.map # {}
  /\ DOMAIN cacheFile.map = DOMAIN loaded.map \cup Recorded

\* C15: a file whose digest failed in the previous run (the loaded cache has
\* None under its path:mtime) and whose path and mtime are unchanged is
\* hashed again by this run
C15_DigestRetried ==
  \A t \in trace :
    (/\ loaded.kind = "dict"
     /\ t.key \in DOMAIN loaded.map
     /\ loaded.map[t.key] = None)
      => t.called

\* the fingerprints of the media files the two trees hold on disk d
Fingerprints(d) ==
  {Digest(d[p].content) : p \in {q \in AllPaths : d[q].present /\ Eligible(q)}}

\* C16: no step of a run loses content: a move never replaces a destination
\* file of different content, so every fingerprint the trees hold before a
\* step of the program they hold after it (here in a run that started
\* without a cache file and met no I/O failure)
C16_NoContentLoss ==
  [][(edits' = edits /\ fileAtStart.kind = "absent" /\ faults' = 0)
       => Fingerprints(fs) \subseteq Fingerprints(fs')]_vars

\* C17: the files one run moves have pairwise distinct fingerprints (here in
\* a run that started without a cache file)
C17_MovedDistinct ==
  fileAtStart.kind = "absent" =>
    \A o1 \in outcome, o2 \in outcome :
      (o1.act = "moved" /\ o2.act = "moved" /\ o1.h = o2.h) => o1 = o2

\* C18: with another program rewriting files during the walk, every entry
\* the walk records under path:m holds the fingerprint of the bytes the file
\* had while its mtime was m (fs0 is the tree as the walk found it: m is the
\* mtime the file had there)
C18_CacheCoherent ==
  (run > 0 /\ pc \in {"stat", "hash", "dump"}) =>
    \A t \in trace :
      (t.called /\ ~t.raised /\ t.h # None) =>
        /\ t.key = MakeKey(t.path, fs0[t.path].mtime)
        /\ cache.map[t.key] = Digest(fs0[t.path].content)

\* C19: a run that follows a completed run, with no I/O failure and no
\* rewrite by another program so far, moves no file (here with the cache the
\* earlier run wrote being a mapping)
C19_Fixpoint ==
  (run >= 2 /\ faults = 0 /\ edits = 0 /\ loaded.kind = "dict") => moved_count = 0

====
